---- MODULE Spec2Model ----
(***************************************************************************)
(* ActivityService.createOne (api/src/services/activity.ts): the mention   *)
(* fan-out that runs before a comment activity record is created.          *)
(*                                                                         *)
(* Every await of the method is one step.  The collaborators (users        *)
(* store, permission resolver, authorization service, notifications        *)
(* service, parent ItemsService) answer nondeterministically, but the      *)
(* same question always gets the same answer: an answer given once is      *)
(* found again in the recorded calls.  The users store is asked with the   *)
(* id string as written in the comment; whether it folds letter case is    *)
(* the store's business, so both spellings of an id may be found.          *)
(* Spec is one createOne call;                                             *)
(* SpecTwoCalls lets the same comment be submitted a second time by a      *)
(* commenter with another role, against the same collaborators.            *)
(***************************************************************************)
EXTENDS Integers, Sequences, FiniteSets, TLC

(* ---------------------------- bounds ----------------------------------- *)
\* number of distinct user rows the comment may mention
NumUsers == 2
\* number of words of the comment text
MaxLen == 2

(* ---------------------------- text ------------------------------------- *)
\* A uuid-shaped string, 8-4-4-4-12 hex digits.  u stands for the 30 free
\* digits, ver is the version nibble, var the variant nibble, up tells
\* whether the hex letters are written in upper case.
Ids == 1..NumUsers

Uuid(u, up, ver, var) == [u |-> u, up |-> up, ver |-> ver, var |-> var]

\* a word of plain text without any "@"
Txt == [t |-> "txt"]

\* a line break
Nl == [t |-> "nl"]

\* "@" followed by a uuid-shaped string
At(id) == [t |-> "at", id |-> id]

\* well-formed version-4 ids in both letter cases, and two ids that have
\* the shape but a wrong version nibble resp. a wrong variant nibble
WellFormed == {Uuid(u, up, 4, 8) : u \in Ids, up \in BOOLEAN}

Malformed == {Uuid(1, FALSE, 1, 8), Uuid(1, TRUE, 4, 12)}

Words == {Txt, Nl} \cup {At(id) : id \in WellFormed \cup Malformed}

SeqsUpTo(S, n) == UNION {[1..k -> S] : k \in 0..n}

Texts == SeqsUpTo(Words, MaxLen)

\* the comment field: a string, or a value that is not one
Str(text) == [type |-> "string", text |-> text]

NotAString == [type |-> "undefined", text |-> <<>>]

COMMENT == "comment"

Actions == {COMMENT, "create"}

(* ---------------------------- helpers ---------------------------------- *)
\* usersRegExp: @[0-9A-F]{8}-[0-9A-F]{4}-4[0-9A-F]{3}-[89AB][0-9A-F]{3}-
\* [0-9A-F]{12} with flags g and i
usersRegExpAnyNibble(w) == w.t = "at"

usersRegExp(w) == w.t = "at" /\ w.id.ver = 4 /\ w.id.var \in {8, 9, 10, 11}

\* String.prototype.match with a global regexp: all matches, in text order
RECURSIVE Match(_)
Match(text) ==
  IF text = <<>> THEN <<>>
  ELSE LET rest == Match(Tail(text))
       IN IF usersRegExp(Head(text)) THEN <<Head(text)>> \o rest ELSE rest

InSeq(x, s) == \E k \in 1..Len(s) : s[k] = x

\* lodash uniq: keeps the first occurrence of each value, compared with
\* SameValueZero (for strings: exact, case-sensitive equality)
RECURSIVE uniq(_)
uniqNone(s) == s

uniq(s) ==
  IF s = <<>> THEN <<>>
  ELSE LET init == uniq(SubSeq(s, 1, Len(s) - 1))
           last == s[Len(s)]
       IN IF InSeq(last, init) THEN init ELSE Append(init, last)

\* mention.substring(1): the token without its sigil
substring1(mention) == mention.id

\* typeof c === 'string'
\* variant: the type of the comment field is not looked at
IsStringAlways(c) == TRUE

IsString(c) == c.type = "string"

(* ---------------------------- roles ------------------------------------ *)
\* directus_roles rows a user may point to; NoRole is a user without role
\* (user['role'] is null)
Roles == {"editor"}

NoRole == "none"

RoleOrNone == Roles \cup {NoRole}

\* role.admin_access and role.app_access of a role row
admin_access(r) == IF r = "admin" THEN "true" ELSE "false"

app_access(r) == "true"

\* the directus_users rows the store may hold: the role of the user an id
\* string names.  Users with an odd number have the role, the others none.
userRole(id) == IF id.u % 2 = 1 THEN "editor" ELSE NoRole

\* the id a directus_users row carries: ids are stored in lower case, so a
\* row found under an upper-case spelling comes back with the stored one
rowId(id) == [id EXCEPT !.up = FALSE]

(* ---------------------------- rendering -------------------------------- *)
\* pieces of a display name: ordinary text naming user u, and the two
\* characters "$&"
Plain(u) == [t |-> "name", u |-> u]

DollarAmp == [t |-> "$&"]

\* userName(user): the display name formed from first_name, last_name and
\* email of a row.  Users with an odd number have an ordinary name, the
\* others have "$&" as first name.
userName(id) == IF id.u % 2 = 1 THEN <<Plain(id.u)>> ELSE <<DollarAmp, Plain(id.u)>>

EmOpen == [t |-> "<em>"]

EmClose == [t |-> "</em>"]

UnknownUser == [t |-> "@Unknown User"]

QuoteMark == [t |-> "> "]

\* isValidUuid(uuid): the identifier grammar once more
isValidUuid(id) == id.ver = 4 /\ id.var \in {8, 9, 10, 11}

\* lines 67-73: the previews of the fetched rows, keyed by the rows' ids
userPreviews(rows) == [r \in rows |-> <<EmOpen>> \o userName(r) \o <<EmClose>>]

\* what String.prototype.replace inserts for one match: the replacement
\* string with every "$&" expanded to the matched text
RECURSIVE Expand(_, _)
Expand(replacement, matched) ==
  IF replacement = <<>> THEN <<>>
  ELSE (IF Head(replacement) = DollarAmp THEN <<matched>> ELSE <<Head(replacement)>>)
         \o Expand(Tail(replacement), matched)

\* comment.replace(new RegExp(mention, 'gm'), replacement): every exact
\* occurrence of the token is replaced; inserted text is not scanned again
RECURSIVE replaceAll(_, _, _)
replaceAll(comment, mention, replacement) ==
  IF comment = <<>> THEN <<>>
  ELSE (IF Head(comment) = mention
        THEN Expand(replacement, mention)
        ELSE <<Head(comment)>>)
         \o replaceAll(Tail(comment), mention, replacement)

\* variant: a missing preview is inserted as it is, without the fallback
substitutionNoFallback(previews, uuid) ==
  IF uuid \in DOMAIN previews THEN previews[uuid] ELSE <<>>

\* line 81: userPreviews[uuid] ?? '@Unknown User'
substitution(previews, uuid) ==
  IF uuid \in DOMAIN previews THEN previews[uuid] ELSE <<UnknownUser>>

\* lines 75-82: the loop over the first k mentions
RECURSIVE replaceMentions(_, _, _, _)
replaceMentions(comment, ms, previews, k) ==
  IF k = 0 THEN comment
  ELSE LET before == replaceMentions(comment, ms, previews, k - 1)
           uuid == ms[k].id
       IN IF isValidUuid(uuid) = FALSE THEN before
          ELSE replaceAll(before, ms[k], substitution(previews, uuid))

\* comment.replace(/\n+/gm, '\n> '): every run of line breaks becomes one
\* line break followed by a quote mark
RECURSIVE quoteLines(_)
quoteLines(comment) ==
  IF comment = <<>> THEN <<>>
  ELSE IF Head(comment) = Nl
       THEN IF Len(comment) >= 2 /\ comment[2] = Nl
            THEN quoteLines(Tail(comment))
            ELSE <<Nl, QuoteMark>> \o quoteLines(Tail(comment))
       ELSE <<Head(comment)>> \o quoteLines(Tail(comment))

\* lines 75-84
render(comment, ms, previews) ==
  <<QuoteMark>> \o quoteLines(replaceMentions(comment, ms, previews, Len(ms)))

(* ---------------------------- state ------------------------------------ *)
VARIABLES
  data,            \* createOne's first argument
  opts,            \* createOne's second argument
  acc,             \* this.accountability, the commenter's
  pc,              \* position inside createOne
  mentions,        \* const mentions
  idx,             \* position of the for-of loop over mentions (1-based)
  sender,          \* const sender
  user,            \* const user of the current iteration
  accountability,  \* const accountability of the current iteration
  message,         \* const message of the current iteration
  queue,           \* notifications created by this call, in order
  log,             \* logger.warn lines of this call, in order
  created,         \* arguments of the super.createOne calls of this call
  error,           \* the error this call raised, if any
  trace,           \* collaborator calls of this call, in order
  prevTrace,       \* collaborator calls of the earlier calls
  prevQueue,       \* queue of the preceding call
  prevMentions,    \* mentions of the preceding call
  run              \* which call this is: "first" or "second"

vars == <<data, opts, acc, pc, mentions, idx, sender, user,
          accountability, message, queue, log, created, error, trace,
          prevTrace, prevQueue, prevMentions, run>>

None == [none |-> TRUE]

NoError == [kind |-> "none", at |-> "none"]

OptsSet == {"undefined", "emitEvents"}

\* the users who post the comment
Commenters == {1}

\* the accountability of a service call made on behalf of a user with a role
Acc(id, r) ==
  [user |-> id, role |-> r,
   admin |-> IF r = NoRole THEN "null" ELSE admin_access(r),
   app |-> IF r = NoRole THEN "null" ELSE app_access(r),
   permissions |-> "unset"]

\* getPermissions(accountability, schema): the permission rows of the
\* accountability's role, named here by that role
getPermissions(a) == a.role

\* ------------------------ collaborator answers ---------------------------
Event(op, m, arg, res) == [op |-> op, m |-> m, arg |-> arg, res |-> res]

Events(h) == {h[k] : k \in 1..Len(h)}

\* the answers already given to a call of op with argument arg
Answered(op, arg) ==
  {e.res : e \in {x \in Events(prevTrace) \cup Events(trace) :
                    x.op = op /\ x.arg = arg}}

\* the answers a call of op with argument arg may get now
Answers(op, arg, all) ==
  IF Answered(op, arg) = {} THEN all ELSE Answered(op, arg)

(* ---------------------------- control ---------------------------------- *)
\* variant: a thrown error is followed by the record creation all the same
\* (the parent call placed in a finally block)
ThrowPcFinally == "create"

\* where a thrown error leaves createOne: it propagates to the caller
ThrowPc == "failed"

Throw(kind, at) ==
  /\ pc' = ThrowPc
  /\ error' = [kind |-> kind, at |-> at]

\* variant: a mention that was skipped or notified is taken up once more
NextMentionRetry ==
  LET again == Cardinality({i \in 1..Len(trace) : trace[i].m = idx /\ trace[i].op = "readOne"}) = 1
  IN /\ idx' = IF again THEN idx ELSE idx + 1
     /\ pc' = IF again \/ idx + 1 <= Len(mentions) THEN "readUser" ELSE "create"
     /\ user' = None
     /\ accountability' = None
     /\ message' = None

\* the for-of loop moves to the next mention, or falls through to line 118
NextMention ==
  /\ idx' = idx + 1
  /\ pc' = IF idx + 1 <= Len(mentions) THEN "readUser" ELSE "create"
  /\ user' = None
  /\ accountability' = None
  /\ message' = None

\* variant: the catch block rethrows whatever it caught
isForbiddenNever(kind) == FALSE

\* variant: the catch block logs and swallows whatever it caught
isForbiddenAlways(kind) == TRUE

\* isDirectusError(err, ErrorCode.Forbidden)
isForbidden(kind) == kind = "Forbidden"

\* the catch block of lines 108-114
Catch(kind, at, userID) ==
  IF isForbidden(kind)
  THEN /\ log' = Append(log, userID)
       /\ NextMention
       /\ UNCHANGED error
  ELSE /\ Throw(kind, at)
       /\ UNCHANGED <<log, idx, user, accountability, message>>

\* variant: the check runs under the commenter's own accountability
buildAccountabilityThis(userID, u) == [acc EXCEPT !.permissions = "unset"]

\* variant: the recipient's context takes the commenter's role
buildAccountabilityThisRole(userID, u) == Acc(userID, acc.role)

\* lines 47-52
buildAccountability(userID, u) == Acc(userID, u.role)

\* variant: the comment field was overwritten while rendering
superArgsRendered(d, o) == [data |-> [d EXCEPT !.comment = Str(<<Txt>>)], opts |-> o]

\* line 118: what is handed to the parent's createOne
superArgs(d, o) == [data |-> d, opts |-> o]

\* variant: the quoted body opens with the recipient's name
buildMessageNamed(u, s, comment, d) ==
  [to |-> userName(u.id), from |-> userName(s.id), body |-> userName(u.id) \o comment,
   href |-> <<"admin", "content", d.collection, d.item>>]

\* lines 86-98: the greeting, the sender's name, the quoted comment and
\* the link to the item
buildMessage(u, s, comment, d) ==
  [to |-> userName(u.id), from |-> userName(s.id), body |-> comment,
   href |-> <<"admin", "content", d.collection, d.item>>]

\* lines 100-107 (the subject is left out: it repeats the collection)
\* variant: recipient and sender change places
notificationSwapped(userID, s, d, msg) ==
  [recipient |-> s.id, sender |-> userID, message |-> msg,
   collection |-> d.collection, item |-> d.item]

notification(userID, s, d, msg) ==
  [recipient |-> userID, sender |-> s.id, message |-> msg,
   collection |-> d.collection, item |-> d.item]

\* the rows usersService.readByQuery returned: "all" are the rows of all
\* the mentioned ids, "own" is the recipient's own row alone
templateData(res, ms, userID) ==
  IF res = "all" THEN {rowId(ms[k].id) : k \in 1..Len(ms)}
  ELSE IF res = "own" THEN {rowId(userID)}
  ELSE {}

\* the answers usersService.readByQuery may give
fetchAnswers(ms, userID) ==
  {"Forbidden", "Other", "all"}
    \cup (IF templateData("all", ms, userID) = templateData("own", ms, userID)
          THEN {} ELSE {"own"})

\* the rows some readByQuery has returned so far
SeenRows ==
  UNION {templateData(e.res, e.arg.mentions, e.arg.accountability.user) :
           e \in {x \in Events(prevTrace) \cup Events(trace) : x.op = "readByQuery"}}

(* ---------------------------- initial state ---------------------------- *)
Inputs ==
  [action : Actions, comment : {Str(t) : t \in Texts} \cup {NotAString},
   collection : {"articles"}, item : {7}]

Fresh ==
  /\ pc = "start"
  /\ mentions = <<>>
  /\ idx = 1
  /\ sender = None
  /\ user = None
  /\ accountability = None
  /\ message = None
  /\ queue = <<>>
  /\ log = <<>>
  /\ created = <<>>
  /\ error = NoError
  /\ trace = <<>>

Init ==
  /\ data \in Inputs
  /\ opts \in OptsSet
  /\ \E c \in Commenters :
       LET id == Uuid(c, FALSE, 4, 8)
       IN acc = [Acc(id, userRole(id)) EXCEPT !.permissions = userRole(id)]
  /\ Fresh
  /\ prevTrace = <<>>
  /\ prevQueue = <<>>
  /\ prevMentions = <<>>
  /\ run = "first"

(* ---------------------------- createOne -------------------------------- *)
env == <<data, opts, acc, prevTrace, prevQueue, prevMentions, run>>

\* lines 31-34
\* variant: the author of the comment is taken out of the mentions
EnterExcludingAuthor ==
  /\ pc = "start"
  /\ IF data.action = COMMENT /\ IsString(data.comment)
     THEN /\ mentions' = SelectSeq(uniq(Match(data.comment.text)),
                                   LAMBDA w : rowId(w.id) # acc.user)
          /\ pc' = "readSender"
     ELSE /\ mentions' = <<>>
          /\ pc' = "create"
  /\ UNCHANGED <<env, idx, sender, user, accountability, message, queue, log,
                 created, error, trace>>

Enter ==
  /\ pc = "start"
  /\ IF data.action = COMMENT /\ IsString(data.comment)
     THEN /\ mentions' = uniq(Match(data.comment.text))
          /\ pc' = "readSender"
     ELSE /\ mentions' = <<>>
          /\ pc' = "create"
  /\ UNCHANGED <<env, idx, sender, user, accountability, message, queue, log,
                 created, error, trace>>

\* lines 36-38
ReadSender ==
  /\ pc = "readSender"
  /\ LET arg == [key |-> acc.user]
     IN \E res \in Answers("readOne", arg, {"found", "NotFound"}) :
          /\ trace' = Append(trace, Event("readOne", 0, arg, res))
          /\ IF res = "NotFound"
             THEN /\ Throw("NotFound", "readSender")
                  /\ UNCHANGED sender
             ELSE /\ sender' = [id |-> arg.key]
                  /\ pc' = IF Len(mentions) >= 1 THEN "readUser" ELSE "create"
                  /\ UNCHANGED error
  /\ UNCHANGED <<env, mentions, idx, user, accountability, message, queue, log,
                 created>>

\* lines 41-52
ReadUser ==
  /\ pc = "readUser"
  /\ LET userID == substring1(mentions[idx])
         arg == [key |-> userID]
     IN \E res \in (IF rowId(userID) \in SeenRows THEN {"found"}
                    ELSE Answers("readOne", arg, {"found", "NotFound"})) :
          /\ trace' = Append(trace, Event("readOne", idx, arg, res))
          /\ IF res = "NotFound"
             THEN /\ Throw("NotFound", "readUser")
                  /\ UNCHANGED <<user, accountability>>
             ELSE /\ user' = [id |-> rowId(userID), role |-> userRole(userID)]
                  /\ accountability' = buildAccountability(userID, user')
                  /\ pc' = "getPermissions"
                  /\ UNCHANGED error
  /\ UNCHANGED <<env, mentions, idx, sender, message, queue, log, created>>

\* line 54
GetPermissions ==
  /\ pc = "getPermissions"
  /\ \E res \in Answers("getPermissions", accountability, {"ok", "Other"}) :
       /\ trace' = Append(trace, Event("getPermissions", idx, accountability, res))
       /\ IF res = "ok"
          THEN /\ accountability' =
                    [accountability EXCEPT !.permissions = getPermissions(accountability)]
               /\ pc' = "checkAccess"
               /\ UNCHANGED error
          ELSE /\ Throw(res, "getPermissions")
               /\ UNCHANGED accountability
  /\ UNCHANGED <<env, mentions, idx, sender, user, message, queue, log, created>>

\* variant: the profiles are not fetched after the check
afterCheckNoFetch == "notify"

\* where line 60 continues once checkAccess has returned
afterCheck == "readByQuery"

\* lines 56-60
CheckAccess ==
  /\ pc = "checkAccess"
  /\ LET userID == substring1(mentions[idx])
         arg == [accountability |-> accountability,
                 collection |-> data.collection, item |-> data.item]
     IN \E res \in Answers("checkAccess", arg, {"ok", "Forbidden", "Other"}) :
          /\ trace' = Append(trace, Event("checkAccess", idx, arg, res))
          /\ IF res = "ok"
             THEN /\ pc' = afterCheck
                  /\ UNCHANGED <<log, idx, user, accountability, message, error>>
             ELSE Catch(res, "checkAccess", userID)
  /\ UNCHANGED <<env, mentions, sender, queue, created>>

\* lines 62-98
ReadByQuery ==
  /\ pc = "readByQuery"
  /\ LET userID == substring1(mentions[idx])
         arg == [accountability |-> accountability, mentions |-> mentions]
     IN \E res \in Answers("readByQuery", arg, fetchAnswers(mentions, userID)) :
          /\ trace' = Append(trace, Event("readByQuery", idx, arg, res))
          /\ IF res \in {"all", "own"}
             THEN /\ message' =
                       buildMessage(user, sender,
                         render(data.comment.text, mentions,
                                userPreviews(templateData(res, mentions, userID))),
                         data)
                  /\ pc' = "notify"
                  /\ UNCHANGED <<log, idx, user, accountability, error>>
             ELSE Catch(res, "readByQuery", userID)
  /\ UNCHANGED <<env, mentions, sender, queue, created>>

\* lines 100-107
Notify ==
  /\ pc = "notify"
  /\ LET userID == substring1(mentions[idx])
         arg == notification(userID, sender, data, message)
     IN \E res \in Answers("notify", arg, {"ok", "Forbidden", "Other"}) :
          /\ trace' = Append(trace, Event("notify", idx, arg, res))
          /\ IF res = "ok"
             THEN /\ queue' = Append(queue, arg)
                  /\ NextMention
                  /\ UNCHANGED <<log, error>>
             ELSE /\ Catch(res, "notify", userID)
                  /\ UNCHANGED queue
  /\ UNCHANGED <<env, mentions, sender, created>>

\* line 118
Create ==
  /\ pc = "create"
  /\ \E res \in {"ok", "Other"} :
       /\ trace' = Append(trace, Event("create", 0, superArgs(data, opts), res))
       /\ created' = Append(created, superArgs(data, opts))
       /\ IF res = "ok"
          THEN pc' = "done" /\ UNCHANGED error
          ELSE pc' = "failed" /\ error' = [kind |-> res, at |-> "create"]
  /\ UNCHANGED <<env, mentions, idx, sender, user, accountability, message,
                 queue, log>>

\* the same comment is submitted again by a commenter whose role and
\* permissions are different
NextCall ==
  /\ pc \in {"done", "failed"}
  /\ run = "first"
  /\ run' = "second"
  /\ \E r \in RoleOrNone \ {acc.role} :
       acc' = [Acc(acc.user, r) EXCEPT !.permissions = r]
  /\ prevTrace' = prevTrace \o SelectSeq(trace, LAMBDA e : e.op # "create")
  /\ prevQueue' = queue
  /\ prevMentions' = mentions
  /\ pc' = "start"
  /\ mentions' = <<>>
  /\ idx' = 1
  /\ sender' = None
  /\ user' = None
  /\ accountability' = None
  /\ message' = None
  /\ queue' = <<>>
  /\ log' = <<>>
  /\ created' = <<>>
  /\ error' = NoError
  /\ trace' = <<>>
  /\ UNCHANGED <<data, opts>>

Next ==
  \/ Enter
  \/ ReadSender
  \/ ReadUser
  \/ GetPermissions
  \/ CheckAccess
  \/ ReadByQuery
  \/ Notify
  \/ Create

Spec == Init /\ [][Next]_vars

NextTwoCalls ==
  \/ Enter
  \/ ReadSender
  \/ ReadUser
  \/ GetPermissions
  \/ CheckAccess
  \/ ReadByQuery
  \/ Notify
  \/ Create
  \/ NextCall

SpecTwoCalls == Init /\ [][NextTwoCalls]_vars

(* ---------------------------- properties ------------------------------ *)
Pos == 1..Len(trace)

Calls(op) == {i \in Pos : trace[i].op = op}

Ended == pc \in {"done", "failed"}

FanOutSteps ==
  {"readSender", "readUser", "getPermissions", "checkAccess", "readByQuery", "notify"}

\* the access context of recipient id, derived from id's own role
OwnContext(id) ==
  [Acc(id, userRole(id)) EXCEPT
     !.permissions = getPermissions(Acc(id, userRole(id)))]

\* positions of the queue entries of a recipient id string
Queued(id) == {k \in 1..Len(queue) : queue[k].recipient = id}

Logged(id) == {k \in 1..Len(log) : log[k] = id}

\* C1: a notification for recipient R is enqueued only after a successful
\* read-access check on the comment's (collection, item) made under an access
\* context whose subject is R and whose role, admin flag, app flag and
\* permissions come from R's own role.
C1_NotifiedOnlyAfterOwnCheck ==
  /\ \A k \in 1..Len(queue) :
       \E j \in Calls("notify") : trace[j].res = "ok" /\ trace[j].arg = queue[k]
  /\ \A j \in Calls("notify") :
       \E i \in Calls("checkAccess") :
         /\ i < j
         /\ trace[i].res = "ok"
         /\ trace[i].arg.collection = data.collection
         /\ trace[i].arg.item = data.item
         /\ trace[i].arg.accountability.user = trace[j].arg.recipient
         /\ trace[i].arg.accountability = OwnContext(trace[j].arg.recipient)

\* a notification has been enqueued for a recipient whose role is not the
\* commenter's
C1_Witness ==
  /\ Len(queue) >= 1
  /\ userRole(queue[1].recipient) # acc.role
  /\ queue[1].recipient # acc.user

\* the answer the call of op made for mention m got, "-" when none was made
Res(op, m) ==
  LET at == {i \in Calls(op) : trace[i].m = m}
  IN IF at = {} THEN "-" ELSE trace[CHOOSE i \in at : TRUE].res

MentionCase == data.action = COMMENT /\ IsString(data.comment)

\* every mentioned recipient looked up exists, every check made ended ok or
\* Forbidden
C2_Given ==
  /\ MentionCase
  /\ Ended
  /\ \A i \in Calls("readOne") : trace[i].m >= 1 => trace[i].res = "found"
  /\ \A i \in Calls("checkAccess") : trace[i].res \in {"ok", "Forbidden"}

\* the other collaborator calls made all succeeded
C2_OthersSucceed ==
  \A i \in Pos :
    trace[i].op \in {"readOne", "getPermissions", "readByQuery", "notify", "create"}
      => trace[i].res \in {"found", "ok", "all", "own"}

C2_Outcome ==
  /\ pc = "done"
  /\ error = NoError
  /\ created = <<[data |-> data, opts |-> opts]>>
  /\ \A m \in 1..Len(mentions) :
       /\ Res("checkAccess", m) \in {"ok", "Forbidden"}
       /\ Res("checkAccess", m) = "ok" =>
            /\ Cardinality(Queued(mentions[m].id)) = 1
            /\ Logged(mentions[m].id) = {}
       /\ Res("checkAccess", m) = "Forbidden" =>
            /\ Queued(mentions[m].id) = {}
            /\ Cardinality(Logged(mentions[m].id)) = 1
  /\ Len(queue) + Len(log) = Len(mentions)

C3_Original ==
  (\E i \in Calls("readOne") : trace[i].m >= 1 /\ trace[i].res = "NotFound")
    => /\ pc = "failed"
       /\ error.kind = "NotFound"
       /\ queue = <<>>

\* C4: when a read-access check fails with an error other than Forbidden,
\* createOne raises that error and nothing is resolved, authorized or
\* notified after it.
C4_OtherCheckErrorAborts ==
  \A i \in Calls("checkAccess") :
    trace[i].res = "Other" =>
      /\ pc = "failed"
      /\ error = [kind |-> "Other", at |-> "checkAccess"]
      /\ i = Len(trace)
      /\ idx = trace[i].m
      /\ Queued(mentions[idx].id) = {}

\* the failing check was not the last mention's
C4_Witness ==
  /\ pc = "failed"
  /\ error = [kind |-> "Other", at |-> "checkAccess"]
  /\ idx < Len(mentions)

\* C5: when createOne ends with an error raised in the mention fan-out, the
\* parent's record creation has not been invoked.
C5_AbortCreatesNothing ==
  error.at \in FanOutSteps => (created = <<>> /\ Calls("create") = {} /\ pc = "failed")

\* the fan-out aborted after a notification had been enqueued
C5_Witness ==
  /\ pc = "failed"
  /\ error.at \in {"readUser", "notify"}
  /\ Len(queue) >= 1

\* C6: when the fan-out finishes without abort, the record creation is
\* invoked exactly once, with the input data and options as given, after the
\* last notification enqueue; nothing is enqueued once it has started.
C6_CreatedOnceAfterFanOut ==
  /\ Len(created) <= 1
  /\ Cardinality(Calls("create")) = Len(created)
  /\ (Ended /\ error.at \notin FanOutSteps) => Len(created) = 1
  /\ \A k \in 1..Len(created) : created[k] = [data |-> data, opts |-> opts]
  /\ \A i \in Calls("create") :
       /\ i = Len(trace)
       /\ trace[i].arg = [data |-> data, opts |-> opts]
       /\ pc \in {"done", "failed"}
       /\ idx > Len(mentions) \/ mentions = <<>>

\* the record was created after two notifications
C6_Witness ==
  /\ pc = "done"
  /\ Len(queue) = 2
  /\ Len(created) = 1

\* an id string with its hex letters in lower case
Fold(id) == [id EXCEPT !.up = FALSE]

\* C7: within one call no recipient identifier gets more than one
\* notification, in whatever letter case it is mentioned.
C7_Original ==
  \A k, l \in 1..Len(queue) :
    k # l => Fold(queue[k].recipient) # Fold(queue[l].recipient)

\* C8: a comment without mention tokens causes no user lookup, permission
\* resolution, authorization check, profile fetch or enqueue, and can fail
\* only in the record creation.
C8_Original ==
  (MentionCase /\ Match(data.comment.text) = <<>>)
    => /\ \A i \in Pos : trace[i].op = "create"
       /\ error # NoError => error.at = "create"

Recipients(q) == {q[k].recipient : k \in 1..Len(q)}

\* C10: the context a recipient is authorized under is built from the
\* recipient's identifier and role only, so a second call that differs only
\* in the commenter's role and permissions notifies the same recipients.
C10_CommenterRoleIrrelevant ==
  /\ \A i \in Calls("checkAccess") :
       trace[i].arg.accountability = OwnContext(mentions[trace[i].m].id)
  /\ (run = "second" /\ Ended) => Recipients(queue) = Recipients(prevQueue)

\* the second call ended after notifying one recipient and skipping another
C10_Witness ==
  /\ run = "second"
  /\ pc = "done"
  /\ Len(queue) = 1
  /\ Len(log) = 1
  /\ userRole(queue[1].recipient) # acc.role

\* C11: an error raised by the profile fetch, the rendering or the enqueue is
\* raised to the caller, ends the processing of the mentions and prevents the
\* record creation; only a Forbidden answer of the authorization check itself
\* becomes a logged skip.
C11_Original ==
  /\ \A i \in Calls("readByQuery") \cup Calls("notify") :
       trace[i].res \in {"Forbidden", "Other"} =>
         /\ pc = "failed"
         /\ error.kind = trace[i].res
         /\ i = Len(trace)
         /\ created = <<>>
  /\ \A k \in 1..Len(log) :
       \E i \in Calls("checkAccess") :
         trace[i].res = "Forbidden" /\ trace[i].arg.accountability.user = log[k]

\* the ids of the rows the profile fetch made for mention m returned
FetchedRows(m) == templateData(Res("readByQuery", m), mentions, mentions[m].id)

\* the text with every word replaced by what sub gives for it
RECURSIVE Pointwise(_, _)
Pointwise(text, sub) ==
  IF text = <<>> THEN <<>>
  ELSE sub[Head(text)] \o Pointwise(Tail(text), sub)

\* the words of a text
WordsOf(text) == {text[p] : p \in 1..Len(text)}

\* a token is replaced by the emphasized display name of the row with its
\* identifier, or by the placeholder when the fetched rows hold none
C12_Sub(rows) ==
  [w \in WordsOf(data.comment.text) |->
     IF ~ usersRegExp(w) THEN <<w>>
     ELSE IF w.id \in rows THEN <<EmOpen>> \o userName(w.id) \o <<EmClose>>
     ELSE <<UnknownUser>>]

\* C12: rendering never fails, whichever mentioned identifiers the fetched
\* profile map holds; a token whose identifier is absent from the map becomes
\* "@Unknown User", a token whose identifier is present becomes that
\* profile's emphasized display name.
C12_Original ==
  /\ \A i \in Calls("readByQuery") :
       (trace[i].res \in {"all", "own"} /\ i = Len(trace)) =>
         (pc = "notify" /\ error = NoError)
  /\ pc = "notify" =>
       message.body =
         <<QuoteMark>> \o
           quoteLines(Pointwise(data.comment.text, C12_Sub(FetchedRows(idx))))

\* what the replacement loop puts in the place of a token
C13_Sub(rows) ==
  [w \in WordsOf(data.comment.text) |->
     IF ~ usersRegExp(w) THEN <<w>>
     ELSE Expand(substitution(userPreviews(rows), w.id), w)]

\* C13: after rendering every occurrence of every extracted token has been
\* replaced, equal tokens by equal text, and no extracted token is left in
\* the rendered body.
C13_Original ==
  pc = "notify" =>
    /\ message.body =
         <<QuoteMark>> \o
           quoteLines(Pointwise(data.comment.text, C13_Sub(FetchedRows(idx))))
    /\ \A p \in 1..Len(message.body), k \in 1..Len(mentions) :
         message.body[p] # mentions[k]

\* the place of the first occurrence of word w in a text
FirstPos(w, text) == CHOOSE p \in 1..Len(text) : text[p] = w /\ \A q \in 1..(p - 1) : text[q] # w

OffNibble(id) == id.ver # 4 \/ id.var \notin {8, 9, 10, 11}

\* C15: an identifier whose version nibble is not 4 or whose variant nibble
\* is not 8, 9, a or b is never extracted, looked up, checked or notified.
C15_OffNibbleNeverMentioned ==
  /\ \A k \in 1..Len(mentions) : ~ OffNibble(mentions[k].id)
  /\ \A i \in Calls("readOne") : ~ OffNibble(trace[i].arg.key)
  /\ \A i \in Calls("getPermissions") : ~ OffNibble(trace[i].arg.user)
  /\ \A i \in Calls("checkAccess") : ~ OffNibble(trace[i].arg.accountability.user)
  /\ \A i \in Calls("notify") : ~ OffNibble(trace[i].arg.recipient)
  /\ \A k \in 1..Len(queue) : ~ OffNibble(queue[k].recipient)
  /\ \A k \in 1..Len(log) : ~ OffNibble(log[k])

\* a comment with an off-nibble identifier next to a mention went through
C15_Witness ==
  /\ pc = "done"
  /\ MentionCase
  /\ \E w \in WordsOf(data.comment.text) : w.t = "at" /\ OffNibble(w.id)
  /\ Len(queue) = 1

\* the place of a step in the processing of one mention
Rank(op) ==
  CASE op = "readOne" -> 1
    [] op = "getPermissions" -> 2
    [] op = "checkAccess" -> 3
    [] op = "readByQuery" -> 4
    [] op = "notify" -> 5
    [] OTHER -> 0

\* the calls made for mention m
MentionSteps(m) == {i \in Pos : trace[i].m = m}

\* C16: mentions are processed one after another in extraction order; the
\* steps of a mention are resolve, build context, authorize and, only after
\* a successful check, render and enqueue; the next mention is resolved only
\* after the current one was enqueued or skipped as forbidden; no step is
\* made twice for a mention.
C16_SequentialNoRetry ==
  /\ \A i, j \in Pos :
       (i < j /\ trace[i].m >= 1 /\ trace[j].m >= 1) =>
         /\ trace[i].m <= trace[j].m
         /\ trace[i].m = trace[j].m => Rank(trace[i].op) < Rank(trace[j].op)
  /\ \A i \in Calls("readOne") :
       trace[i].m >= 1 => trace[i].arg.key = substring1(mentions[trace[i].m])
  /\ \A i \in Calls("readByQuery") \cup Calls("notify") :
       Res("checkAccess", trace[i].m) = "ok"
  /\ \A m \in 2..Len(mentions) :
       MentionSteps(m) # {} =>
         /\ MentionSteps(m - 1) # {}
         /\ LET last == CHOOSE i \in MentionSteps(m - 1) :
                          \A j \in MentionSteps(m - 1) : j <= i
            IN \/ trace[last].op = "notify" /\ trace[last].res = "ok"
               \/ trace[last].res = "Forbidden" /\ Rank(trace[last].op) >= 3

\* two mentions were processed, the first skipped and the second enqueued
C16_Witness ==
  /\ pc = "done"
  /\ Len(mentions) = 2
  /\ Res("checkAccess", 1) = "Forbidden"
  /\ Res("notify", 2) = "ok"

\* the enqueue calls that succeeded
Enqueued == {i \in Calls("notify") : trace[i].res = "ok"}

SelfMention ==
  /\ MentionCase
  /\ \E w \in WordsOf(data.comment.text) : usersRegExp(w) /\ rowId(w.id) = acc.user

\* a notification the author of the comment gets from themselves
SelfNotified ==
  \E k \in 1..Len(queue) :
    rowId(queue[k].recipient) = acc.user /\ queue[k].sender = acc.user

NotAComment == data.action # COMMENT \/ data.comment.type # "string"

\* C19: for an input that is not a comment nothing of the mention processing
\* happens (no lookup, no permission resolution, no check, no enqueue, no
\* warning) and the record creation is called exactly once with the
\* unchanged input.
C19_NotACommentOnlyCreates ==
  NotAComment =>
    /\ \A i \in Pos : trace[i].op = "create"
    /\ mentions = <<>> /\ queue = <<>> /\ log = <<>>
    /\ sender = None /\ user = None /\ accountability = None /\ message = None
    /\ pc \in {"start", "create", "done", "failed"}
    /\ error.at \in {"none", "create"}
    /\ IF Ended
       THEN /\ created = <<[data |-> data, opts |-> opts]>>
            /\ Len(trace) = 1
            /\ trace[1].arg = [data |-> data, opts |-> opts]
       ELSE created = <<>> /\ trace = <<>>

\* an input of the comment action without comment text was created
C19_Witness ==
  /\ data.action = COMMENT
  /\ data.comment = NotAString
  /\ pc = "done"
  /\ Len(created) = 1

\* the mention tokens of the comment being created
MentionTokens ==
  IF NotAComment THEN {}
  ELSE {w \in WordsOf(data.comment.text) : usersRegExp(w)}

\* C20: every enqueued notification has an identifier of a mention token of
\* the comment as recipient, the commenting user as sender, the collection
\* and item of the input; there are never more notifications than distinct
\* mention tokens.
C20_NotificationShape ==
  /\ \A k \in 1..Len(queue) :
       /\ \E w \in MentionTokens : queue[k].recipient = w.id
       /\ queue[k].sender = acc.user
       /\ queue[k].collection = data.collection
       /\ queue[k].item = data.item
  /\ Len(queue) <= Cardinality(MentionTokens)
  /\ Cardinality(Enqueued) = Len(queue)

\* a recipient other than the commenter was notified
C20_Witness ==
  /\ pc = "done"
  /\ \E k \in 1..Len(queue) : rowId(queue[k].recipient) # acc.user

====
